---- MODULE Spec2Model ----
(***************************************************************************)
(* Model of the Monopoly proof-of-concept script (src/monopoly.py) and of  *)
(* the advisor helpers (src/advisors.py): the turn loop, the request of    *)
(* the primary agent's proposal, the sequential advisor voting loop and    *)
(* the majority verdict.                                                   *)
(*                                                                         *)
(* Texts are sequences of one-character strings, so that lower() and the   *)
(* substring test of parse_advisor_response are computed, not assumed.     *)
(* The game engine (monosim) and the language model are collaborators     *)
(* outside the repository: a call of player.play() advances the game and   *)
(* may make players lose; a call of structured_llm.invoke either returns a *)
(* response or raises.  Nothing in the script catches an exception, so a   *)
(* raise ends the script.                                                  *)
(***************************************************************************)
EXTENDS Integers, Sequences, FiniteSets, TLC

VARIABLES
    pc,                \* position of the script
    idx_count,         \* rounds completed (monopoly.py:191)
    player_idx,        \* position of the for loop in list_players
    turns,             \* per player: number of play() calls made
    lost,              \* per player: has_lost()
    llm_primary,       \* what the model answers to the primary prompt
    llm_advisor,       \* per advisor: what the model answers to its prompt
    proposal_decision, \* proposal.decision (monopoly.py:220)
    adv,               \* position of the for loop in advisors
    votes,             \* the list votes (monopoly.py:237)
    primary_prompts,   \* prompts sent for the primary agent
    advisor_prompts,   \* prompts sent for the advisors, in order
    output,            \* lines printed that matter here
    error              \* the exception that ended the script, if any

vars == <<pc, idx_count, player_idx, turns, lost, llm_primary, llm_advisor,
          proposal_decision, adv, votes, primary_prompts, advisor_prompts,
          output, error>>

(***************************************************************************)
(* Program constants                                                       *)
(***************************************************************************)
stop_at_round == 5

list_players == <<"player1", "player2">>

advisors == << [name |-> "Advisor A", strategy |-> "Aggressive"],
               [name |-> "Advisor B", strategy |-> "Conservative"],
               [name |-> "Advisor C", strategy |-> "Opportunistic"] >>

agent_role == "Player 1"

Players == 1..Len(list_players)
Advisors == 1..Len(advisors)

(***************************************************************************)
(* Bounds of the input sets                                                *)
(***************************************************************************)
MaxVotes == 5
MaxLen == 4

(***************************************************************************)
(* Texts                                                                   *)
(***************************************************************************)
UpperCase == <<"A","B","C","D","E","F","G","H","I","J","K","L","M",
               "N","O","P","Q","R","S","T","U","V","W","X","Y","Z">>
LowerCase == <<"a","b","c","d","e","f","g","h","i","j","k","l","m",
               "n","o","p","q","r","s","t","u","v","w","x","y","z">>

LowerChar(c) ==
    IF \E k \in 1..Len(UpperCase) : UpperCase[k] = c
    THEN LowerCase[CHOOSE k \in 1..Len(UpperCase) : UpperCase[k] = c]
    ELSE c

\* str.lower()
lower(s) == [k \in 1..Len(s) |-> LowerChar(s[k])]

\* Python's  needle in hay  for strings, scanning the offsets left to right
RECURSIVE FindFrom(_, _, _)
FindFrom(needle, hay, k) ==
    IF k + Len(needle) - 1 > Len(hay) THEN FALSE
    ELSE IF SubSeq(hay, k, k + Len(needle) - 1) = needle THEN TRUE
    ELSE FindFrom(needle, hay, k + 1)

In(needle, hay) == FindFrom(needle, hay, 1)

T_approve == <<"a","p","p","r","o","v","e">>
T_accept == <<"a","c","c","e","p","t">>
T_yes == <<"y","e","s">>

parse_advisor_response_NoLower(response) ==
    LET decision == response.decision
    IN  IF In(T_approve, decision) \/ In(T_accept, decision) \/ In(T_yes, decision)
        THEN TRUE
        ELSE FALSE

parse_advisor_response(response) ==
    LET decision == lower(response.decision)
    IN  IF In(T_approve, decision) \/ In(T_accept, decision) \/ In(T_yes, decision)
        THEN TRUE
        ELSE FALSE

(***************************************************************************)
(* Answers of the language model                                           *)
(***************************************************************************)
Txt_YesApprove == <<"Y","e","s",","," ","I"," ","a","p","p","r","o","v","e",
                    " ","t","h","i","s"," ","t","r","a","d","e">>
Txt_NoRisky == <<"N","o",","," ","t","h","i","s"," ","i","s"," ","t","o","o",
                 " ","r","i","s","k","y">>
Txt_NotSure == <<"N","o","t"," ","s","u","r","e",","," ","m","a","y","b","e">>

Raised == [ok |-> FALSE, decision |-> <<>>]
Returned(d) == [ok |-> TRUE, decision |-> d]

AdvisorAnswers == {Returned(Txt_YesApprove), Returned(Txt_NoRisky),
                   Returned(Txt_NotSure), Raised}

PrimaryAnswers == {[ok |-> TRUE, decision |-> "yes"],
                   [ok |-> TRUE, decision |-> "no"],
                   [ok |-> FALSE, decision |-> ""]}

(***************************************************************************)
(* Prompts                                                                 *)
(***************************************************************************)
\* game["bank"], game["board"], game["roads"], game["properties"]: the live
\* objects, which only play() changes; identified by the plays made so far
GameObjects == turns

get_current_state(players) ==
    [p \in DOMAIN players |-> [turns |-> turns[p], lost |-> lost[p]]]

PrimaryContext ==
    [agent_role |-> agent_role, game |-> GameObjects,
     player_state |-> get_current_state(list_players)]

AdvisorContextSeesVotes(a) ==
    [advisor_name |-> advisors[a].name,
     advisor_strategy |-> advisors[a].strategy,
     game |-> GameObjects,
     proposed_action |-> IF votes # <<>> /\ ~votes[Len(votes)]
                         THEN "no" ELSE proposal_decision]

AdvisorContext(a) ==
    [advisor_name |-> advisors[a].name,
     advisor_strategy |-> advisors[a].strategy,
     game |-> GameObjects,
     proposed_action |-> proposal_decision]

(***************************************************************************)
(* Vote counting                                                           *)
(***************************************************************************)
\* list.count
RECURSIVE count(_, _)
count(s, x) ==
    IF s = <<>> THEN 0
    ELSE (IF Head(s) = x THEN 1 ELSE 0) + count(Tail(s), x)

AcceptedOnTie(vs) == count(vs, TRUE) >= count(vs, FALSE)

Accepted(vs) == count(vs, TRUE) > count(vs, FALSE)

Line(kind, who, what) == [kind |-> kind, who |-> who, what |-> what]

(***************************************************************************)
(* The script                                                              *)
(***************************************************************************)
Init ==
    /\ pc = "while"
    /\ idx_count = 0
    /\ player_idx = 1
    /\ turns = [p \in Players |-> 0]
    /\ lost = [p \in Players |-> FALSE]
    /\ llm_primary \in PrimaryAnswers
    /\ llm_advisor \in [Advisors -> AdvisorAnswers]
    /\ proposal_decision = ""
    /\ adv = 1
    /\ votes = <<>>
    /\ primary_prompts = <<>>
    /\ advisor_prompts = <<>>
    /\ output = <<>>
    /\ error = "none"

LoopConditionOffByOne ==
    ~lost[1] /\ ~lost[2] /\ idx_count <= stop_at_round

LoopCondition ==
    ~lost[1] /\ ~lost[2] /\ idx_count < stop_at_round

ForDoneBreakOnLoss(k, l) == k = Len(list_players) \/ l[k]

\* the for loop over list_players has no break
ForDone(k, l) == k = Len(list_players)

AdvisorsRemaining == adv <= Len(advisors)

WhileEnter ==
    /\ pc = "while"
    /\ LoopCondition
    /\ pc' = "for"
    /\ player_idx' = 1
    /\ UNCHANGED <<idx_count, turns, lost, llm_primary, llm_advisor,
                   proposal_decision, adv, votes, primary_prompts,
                   advisor_prompts, output, error>>

WhileExit ==
    /\ pc = "while"
    /\ ~LoopCondition
    /\ pc' = "proposal"
    /\ UNCHANGED <<idx_count, player_idx, turns, lost, llm_primary,
                   llm_advisor, proposal_decision, adv, votes,
                   primary_prompts, advisor_prompts, output, error>>

\* player.play(): the game advances; players who have lost stay lost
Play ==
    /\ pc = "for"
    /\ turns' = [turns EXCEPT ![player_idx] = @ + 1]
    /\ \E l \in [Players -> BOOLEAN] :
          /\ \A p \in Players : lost[p] => l[p]
          /\ lost' = l
          /\ IF ForDone(player_idx, l)
             THEN pc' = "inc" /\ player_idx' = player_idx
             ELSE pc' = "for" /\ player_idx' = player_idx + 1
    /\ UNCHANGED <<idx_count, llm_primary, llm_advisor, proposal_decision,
                   adv, votes, primary_prompts, advisor_prompts, output,
                   error>>

IncRound ==
    /\ pc = "inc"
    /\ idx_count' = idx_count + 1
    /\ pc' = "while"
    /\ UNCHANGED <<player_idx, turns, lost, llm_primary, llm_advisor,
                   proposal_decision, adv, votes, primary_prompts,
                   advisor_prompts, output, error>>

ProposalFailedSwallowed ==
    /\ pc = "proposal"
    /\ ~llm_primary.ok
    /\ primary_prompts' = Append(primary_prompts, PrimaryContext)
    /\ proposal_decision' = "no"
    /\ adv' = 1
    /\ votes' = <<>>
    /\ pc' = "vote"
    /\ UNCHANGED <<idx_count, player_idx, turns, lost, llm_primary,
                   llm_advisor, advisor_prompts, output, error>>

\* structured_llm.invoke raises for the primary prompt: nothing catches it
ProposalFailed ==
    /\ pc = "proposal"
    /\ ~llm_primary.ok
    /\ primary_prompts' = Append(primary_prompts, PrimaryContext)
    /\ error' = "primary"
    /\ pc' = "crashed"
    /\ UNCHANGED <<idx_count, player_idx, turns, lost, llm_primary,
                   llm_advisor, proposal_decision, adv, votes,
                   advisor_prompts, output>>

ProposalReturned ==
    /\ pc = "proposal"
    /\ llm_primary.ok
    /\ primary_prompts' = Append(primary_prompts, PrimaryContext)
    /\ proposal_decision' = llm_primary.decision
    /\ output' = Append(output, Line("proposal", agent_role, llm_primary.decision))
    /\ adv' = 1
    /\ votes' = <<>>
    /\ pc' = "vote"
    /\ UNCHANGED <<idx_count, player_idx, turns, lost, llm_primary,
                   llm_advisor, advisor_prompts, error>>

AdvisorVote ==
    /\ pc = "vote"
    /\ AdvisorsRemaining
    /\ llm_advisor[adv].ok
    /\ advisor_prompts' = Append(advisor_prompts, AdvisorContext(adv))
    /\ LET vote == parse_advisor_response(llm_advisor[adv])
       IN  /\ votes' = Append(votes, vote)
           /\ output' = Append(output,
                  Line("vote", advisors[adv].name,
                       IF vote THEN "approve" ELSE "reject"))
    /\ adv' = adv + 1
    /\ UNCHANGED <<pc, idx_count, player_idx, turns, lost, llm_primary,
                   llm_advisor, proposal_decision, primary_prompts, error>>

\* structured_llm.invoke raises for an advisor prompt: nothing catches it
AdvisorFailed ==
    /\ pc = "vote"
    /\ AdvisorsRemaining
    /\ ~llm_advisor[adv].ok
    /\ advisor_prompts' = Append(advisor_prompts, AdvisorContext(adv))
    /\ error' = advisors[adv].name
    /\ pc' = "crashed"
    /\ UNCHANGED <<idx_count, player_idx, turns, lost, llm_primary,
                   llm_advisor, proposal_decision, adv, votes,
                   primary_prompts, output>>

Verdict ==
    /\ pc = "vote"
    /\ ~AdvisorsRemaining
    /\ output' = Append(output,
           Line("verdict", "advisors",
                IF Accepted(votes) THEN "accepted" ELSE "rejected"))
    /\ pc' = "done"
    /\ UNCHANGED <<idx_count, player_idx, turns, lost, llm_primary,
                   llm_advisor, proposal_decision, adv, votes,
                   primary_prompts, advisor_prompts, error>>

Next ==
    \/ WhileEnter
    \/ WhileExit
    \/ Play
    \/ IncRound
    \/ ProposalReturned
    \/ ProposalFailed
    \/ AdvisorVote
    \/ AdvisorFailed
    \/ Verdict

Spec == Init /\ [][Next]_vars

\* the turn loop alone (monopoly.py:191-195); the script is one sequential
\* process, so the loop keeps taking steps while it has one to take
TurnLoopNext ==
    \/ WhileEnter
    \/ WhileExit
    \/ Play
    \/ IncRound

FairTurnLoop == Init /\ [][TurnLoopNext]_vars /\ WF_vars(TurnLoopNext)

(***************************************************************************)
(* Vote aggregation on its own: the verdict step applied to every vote     *)
(* list up to MaxVotes entries                                             *)
(***************************************************************************)
BoundedSeq(S, n) == UNION {[1..m -> S] : m \in 0..n}

InitVotes ==
    /\ pc = "vote"
    /\ idx_count = stop_at_round
    /\ player_idx = Len(list_players)
    /\ turns = [p \in Players |-> stop_at_round]
    /\ lost = [p \in Players |-> FALSE]
    /\ llm_primary = [ok |-> TRUE, decision |-> "yes"]
    /\ llm_advisor = [a \in Advisors |-> Raised]
    /\ proposal_decision = "yes"
    /\ adv = Len(advisors) + 1
    /\ votes \in BoundedSeq(BOOLEAN, MaxVotes)
    /\ primary_prompts = <<>>
    /\ advisor_prompts = <<>>
    /\ output = <<>>
    /\ error = "none"

SpecVotes == InitVotes /\ [][Verdict]_vars

(***************************************************************************)
(* parse_advisor_response on its own: the voting step applied to decision  *)
(* texts drawn from ParseTexts                                             *)
(***************************************************************************)
ShortAlphabet == {"y", "e", "s", "Y", "E"}

Prefixes == { <<>>, <<"N","o",","," ">>, <<"I"," ">> }
Middles == { T_approve, T_accept, T_yes,
             <<"A","P","P","R","O","V","E">>, <<"A","c","c","e","p","t">>,
             <<"Y","E","S">>, <<"a","p","p","r","o","v">>,
             <<"a","c","e","p","t">>, <<"y","e"," ","s">>,
             <<"r","e","j","e","c","t">>, <<"n","o">> }
Suffixes == { <<>>, <<"e","d">>, <<"!">> }

ParseTexts ==
    {Txt_YesApprove, Txt_NoRisky, Txt_NotSure}
    \cup {p \o m \o x : p \in Prefixes, m \in Middles, x \in Suffixes}
    \cup BoundedSeq(ShortAlphabet, MaxLen)

InitParse ==
    /\ pc = "vote"
    /\ idx_count = stop_at_round
    /\ player_idx = Len(list_players)
    /\ turns = [p \in Players |-> stop_at_round]
    /\ lost = [p \in Players |-> FALSE]
    /\ llm_primary = [ok |-> TRUE, decision |-> "yes"]
    /\ \E t \in ParseTexts : llm_advisor = [a \in Advisors |-> Returned(t)]
    /\ proposal_decision = "yes"
    /\ adv = 1
    /\ votes = <<>>
    /\ primary_prompts = <<>>
    /\ advisor_prompts = <<>>
    /\ output = <<>>
    /\ error = "none"

SpecParse == InitParse /\ [][AdvisorVote]_vars

(***************************************************************************)
(* Properties                                                              *)
(***************************************************************************)
LoopPcs == {"while", "for", "inc"}
Terminated == pc \in {"done", "crashed"}
NobodyLost == \A p \in Players : ~lost[p]

VerdictLines == {k \in DOMAIN output : output[k].kind = "verdict"}
VoteLinesOf(a) ==
    {k \in DOMAIN output : output[k].kind = "vote" /\ output[k].who = advisors[a].name}
PromptsOf(a) ==
    {k \in DOMAIN advisor_prompts : advisor_prompts[k].advisor_name = advisors[a].name}
VerdictIs(v) == \E k \in VerdictLines : output[k].what = v

Approvals == Cardinality({k \in DOMAIN votes : votes[k]})
Rejections == Cardinality({k \in DOMAIN votes : ~votes[k]})
FailedAdvisors == {a \in Advisors : ~llm_advisor[a].ok}

\* C1: once the verdict is printed for a vote list with a approvals and r
\* rejections, it is "accepted" exactly when a > r; a tie and the empty list
\* give "rejected"; the votes approve, approve, reject give "accepted" with
\* counts 2 and 1.
C1_MajorityLaw ==
    pc = "done" =>
        /\ VerdictIs("accepted") <=> Approvals > Rejections
        /\ VerdictIs("rejected") <=> Approvals <= Rejections
        /\ Approvals = Rejections => VerdictIs("rejected")
        /\ votes = <<>> => VerdictIs("rejected")
        /\ votes = <<TRUE, TRUE, FALSE>> =>
              /\ VerdictIs("accepted")
              /\ count(votes, TRUE) = 2
              /\ count(votes, FALSE) = 1

C1_Witness ==
    /\ pc = "done"
    /\ votes = <<TRUE, FALSE>>
    /\ VerdictIs("rejected")

\* C2 (as claimed): when a player has lost at the end of the turn loop, no
\* proposal is requested, no advisor is consulted and nothing is printed.
C2_GameOverIsTerminal ==
    (\E p \in Players : lost[p]) =>
        /\ primary_prompts = <<>>
        /\ advisor_prompts = <<>>
        /\ output = <<>>

C4_AdvisorFailureAbsorbed ==
    (Terminated /\ llm_primary.ok /\ FailedAdvisors # {}) =>
        /\ \A a \in Advisors : Cardinality(PromptsOf(a)) = 1
        /\ Cardinality(VerdictLines) = 1
        /\ Len(votes) + Cardinality(FailedAdvisors) = Len(advisors)
        /\ llm_advisor = <<Returned(Txt_YesApprove), Returned(Txt_NoRisky), Raised>>
              => VerdictIs("rejected")

\* C5 (as claimed): when the run has ended and every advisor's evaluation
\* fails, the proposal is not accepted and the error reported is
\* AllAdvisorsAbstainedError.
C5_AllAbstainReported ==
    (Terminated /\ llm_primary.ok /\ FailedAdvisors = Advisors) =>
        /\ ~VerdictIs("accepted")
        /\ error = "AllAdvisorsAbstainedError"

\* C6: when the request of the primary proposal fails, the script ends with
\* that error: no advisor is consulted, no vote is recorded and nothing
\* (neither proposal, vote nor verdict) is printed.
C6_ProposalFailureAborts ==
    ~llm_primary.ok =>
        /\ advisor_prompts = <<>>
        /\ votes = <<>>
        /\ output = <<>>
        /\ proposal_decision = ""
        /\ pc \in LoopPcs \cup {"proposal", "crashed"}
        /\ pc = "crashed" => error = "primary"

C6_Witness ==
    /\ pc = "crashed"
    /\ error = "primary"
    /\ primary_prompts # <<>>

\* case-insensitive equality of two characters
SameLetter(c, d) ==
    \/ c = d
    \/ \E k \in 1..Len(UpperCase) : {c, d} = {UpperCase[k], LowerCase[k]}

ContainsIgnoringCase(tok, text) ==
    \E off \in 0..(Len(text) - Len(tok)) :
        \A j \in 1..Len(tok) : SameLetter(text[off + j], tok[j])

Affirmative(text) ==
    \E tok \in {T_approve, T_accept, T_yes} : ContainsIgnoringCase(tok, text)

\* C7: every vote recorded is TRUE exactly when the advisor's decision text
\* contains, ignoring case, one of "approve", "accept", "yes"; in particular
\* "No, this is too risky" and "Not sure, maybe" give FALSE and
\* "Yes, I approve this trade" gives TRUE.
C7_ClassificationLaw ==
    \A k \in DOMAIN votes :
        /\ votes[k] <=> Affirmative(llm_advisor[k].decision)
        /\ llm_advisor[k].decision \in {Txt_NoRisky, Txt_NotSure} => ~votes[k]
        /\ llm_advisor[k].decision = Txt_YesApprove => votes[k]

C7_Witness ==
    /\ votes # <<>>
    /\ llm_advisor[1].decision = <<"N","o",","," ","Y","E","S","!">>
    /\ votes[1]

\* at most one verdict is ever printed; each advisor is evaluated at most
\* once and casts at most one vote; a verdict is printed only when every
\* advisor has been evaluated exactly once and has cast its vote
VerdictOnlyAfterAllAdvisors ==
    /\ Cardinality(VerdictLines) <= 1
    /\ \A a \in Advisors :
          /\ Cardinality(PromptsOf(a)) <= 1
          /\ Cardinality(VoteLinesOf(a)) <= 1
    /\ Len(votes) <= Len(advisor_prompts)
    /\ VerdictLines # {} =>
          /\ \A a \in Advisors :
                /\ Cardinality(PromptsOf(a)) = 1
                /\ Cardinality(VoteLinesOf(a)) = 1
          /\ Len(votes) = Len(advisors)
          /\ \A k \in DOMAIN output : output[k].kind = "vote" => k < Len(output)

\* C8 (as claimed): the verdict is printed only after every advisor has been
\* evaluated exactly once, each advisor casting at most one vote, and a
\* cycle whose proposal was obtained ends with every advisor evaluated
\* (completed or failed) and exactly one verdict printed.
C8_VerdictIsJoinPoint ==
    /\ VerdictOnlyAfterAllAdvisors
    /\ (Terminated /\ llm_primary.ok) =>
          /\ \A a \in Advisors : Cardinality(PromptsOf(a)) = 1
          /\ Cardinality(VerdictLines) = 1

\* C9: every prompt sent so far, for the primary agent and for each
\* advisor, was built from the game as it still is (no turn is played after
\* the first prompt), every advisor prompt carries the proposal's decision,
\* and the advisor prompts differ in nothing but the advisor's name and
\* strategy, whatever the votes cast so far.
C9_SameStateAndProposal ==
    /\ \A k \in DOMAIN primary_prompts :
          /\ primary_prompts[k].game = GameObjects
          /\ primary_prompts[k].player_state = get_current_state(list_players)
    /\ \A k \in DOMAIN advisor_prompts :
          /\ primary_prompts # <<>>
          /\ advisor_prompts[k] =
                [advisor_name |-> advisors[k].name,
                 advisor_strategy |-> advisors[k].strategy,
                 game |-> primary_prompts[1].game,
                 proposed_action |-> llm_primary.decision]
          /\ advisor_prompts[k].game = GameObjects
          /\ advisor_prompts[k].proposed_action = proposal_decision
    /\ (primary_prompts # <<>> \/ pc = "proposal") =>
          pc \notin LoopPcs

C9_Witness ==
    /\ Len(advisor_prompts) = Len(advisors)
    /\ votes = <<FALSE, TRUE, FALSE>>
    /\ proposal_decision = "yes"

\* C10: the turn loop ends, never running more than stop_at_round rounds;
\* outside a round both players have played as many turns as rounds are
\* completed; a round is always played to its end, so that at the end of a
\* round, also of one in which player 1 lost, player 2 has played it too.
C10_RoundsAreAtomic ==
    /\ [](/\ idx_count <= stop_at_round
          /\ turns[1] + turns[2] <= 2 * stop_at_round
          /\ pc \notin {"for", "inc"} =>
                /\ turns[1] = idx_count
                /\ turns[2] = idx_count
                /\ turns[1] + turns[2] = 2 * idx_count
          /\ pc = "inc" =>
                /\ turns[1] = idx_count + 1
                /\ turns[2] = idx_count + 1
          /\ pc = "for" =>
                /\ turns[1] = idx_count + (IF player_idx = 2 THEN 1 ELSE 0)
                /\ turns[2] = idx_count
          /\ (pc = "while" /\ lost[1] /\ idx_count > 0) => turns[2] = turns[1])
    /\ <>(pc \notin LoopPcs)

C10_Witness ==
    /\ pc = "for"
    /\ player_idx = 2
    /\ lost[1]
    /\ ~lost[2]
    /\ idx_count < stop_at_round - 1

====
